---- MODULE Spec2Model ----
(***************************************************************************)
(* Model of go_app/main.go: an HTTP service whose handlers are wrapped by  *)
(* Prometheus instrumentation (counter, in-progress gauge, latency         *)
(* histogram) and served by a gorilla/mux router with a path-template      *)
(* counting middleware.                                                    *)
(*                                                                         *)
(* Paths and path templates are sequences of segments: "/" is <<>>,        *)
(* "/greeting/{name}" is <<"greeting", "{name}">>.  A handler value is the *)
(* sequence of closures a call passes through, outermost first, the last   *)
(* one being the business function.                                        *)
(*                                                                         *)
(* Library behaviour the source relies on:                                 *)
(*  - net/http serves every request on its own goroutine and recovers a    *)
(*    panic that leaves the handler (the request is aborted, the server    *)
(*    keeps running);                                                      *)
(*  - mux matches routes in registration order, answers 404 when no path   *)
(*    matches and 405 when only the method does not, and applies the       *)
(*    middlewares only to a matched route;                                 *)
(*  - promauto.New* registers with the default registry and panics when    *)
(*    the descriptor (fully-qualified name + constant labels) is already   *)
(*    registered, whatever its kind;                                       *)
(*  - Inc, Dec and Observe are atomic; promhttp gathers at request time    *)
(*    (taken here as one atomic read of the registry).                     *)
(***************************************************************************)
EXTENDS Integers, Sequences, FiniteSets, Bags, TLC

VARIABLES
    phase,           \* "setup" | "serving" | "fatal" : where main/startApp is
    routes,          \* router.routes, in registration order
    middlewares,     \* router.middlewares
    built,           \* the handler value the caller is composing (<<>>: none)
    registry,        \* prometheus.DefaultRegisterer: metric identity -> kind
    rejected,        \* <<>>, or the one collector whose registration panicked
    RequestCounter,  \* the CounterVec: path label -> value (series made on first use)
    counter,         \* identity -> value of each registered Counter
    gauge,           \* identity -> value of each registered Gauge
    histogram,       \* identity -> bag of observed samples of each Histogram
    now,             \* wall clock, in seconds
    reqs             \* request slot -> state of the goroutine serving it

vars == <<phase, routes, middlewares, built, registry, rejected, RequestCounter,
          counter, gauge, histogram, now, reqs>>

----------------------------------------------------------------------------
(* Bounds *)

NReq == 2          \* request goroutines of the program as wired by startApp
NLib == 2          \* request goroutines in the open wiring
NScrape == 4       \* request goroutines of the scrape scenario
MaxClock == 40     \* the clock stops advancing here
TickStep == 20     \* seconds the clock advances in one step
MaxRoutes == 2     \* routes a caller registers in the open wiring
MaxWrap == 2       \* wrappers a caller stacks on one business function


----------------------------------------------------------------------------
(* Constants of the program *)

welcomeEndpoint == <<>>
birthdayEndpoint == <<"birthday", "{name}">>
greetingEndpoint == <<"greeting", "{name}">>
metricsPath == <<"metrics">>

BirthdaySleep == 20
GreetingSleep == 5

Fn(name) == [kind |-> "fn", name |-> name, path |-> <<>>]
Wrapper(kind, name, endpoint) == [kind |-> kind, name |-> name, path |-> endpoint]
MetricID(name, endpoint) == [name |-> name, path |-> endpoint]

Middleware == [kind |-> "mw", name |-> "request_counter", path |-> <<>>]

Route(tpl, methods, handler) == [tpl |-> tpl, methods |-> methods, handler |-> handler]

(* The wiring startApp builds, lines 126-140. *)
InProgressID == MetricID("requests_in_progress", birthdayEndpoint)
LatencyID == MetricID("request_latency", greetingEndpoint)

startAppRoutesSwapped ==
    << Route(welcomeEndpoint, {"GET"}, <<Fn("generateWelcomeMessage")>>),
       Route(birthdayEndpoint, {"GET"},
             << Wrapper("histogram", "request_latency", greetingEndpoint),
                Fn("generateBirthdayMessage") >>),
       Route(greetingEndpoint, {"GET"},
             << Wrapper("gauge", "requests_in_progress", birthdayEndpoint),
                Fn("generateGreetingMessage") >>),
       Route(metricsPath, {}, <<Fn("promhttp.Handler")>>) >>
startAppRoutes ==
    << Route(welcomeEndpoint, {"GET"}, <<Fn("generateWelcomeMessage")>>),
       Route(birthdayEndpoint, {"GET"},
             << Wrapper("gauge", "requests_in_progress", birthdayEndpoint),
                Fn("generateBirthdayMessage") >>),
       Route(greetingEndpoint, {"GET"},
             << Wrapper("histogram", "request_latency", greetingEndpoint),
                Fn("generateGreetingMessage") >>),
       Route(metricsPath, {}, <<Fn("promhttp.Handler")>>) >>

startAppRegistry == (InProgressID :> "gauge") @@ (LatencyID :> "histogram")

----------------------------------------------------------------------------
(* Inputs *)

Methods == {"GET", "POST"}

Paths == { <<>>, <<"birthday", "alice">>, <<"greeting", "alice">>,
           <<"greeting", "bob">>, <<"metrics">>, <<"nope">> }

----------------------------------------------------------------------------
(* mux: matching a request against the routes *)

IsVar(seg) == seg = "{name}"

\* The path matches the template: same segments, a variable matches any one.
PathMatches(tpl, path) ==
    /\ Len(tpl) = Len(path)
    /\ \A i \in 1..Len(tpl) : IsVar(tpl[i]) \/ tpl[i] = path[i]

MethodMatches(route, method) == route.methods = {} \/ method \in route.methods

\* Index of the first route matching path and method; 0 if there is none.
MatchRouteAnyMethod(rts, method, path) ==
    LET hits == { i \in 1..Len(rts) : PathMatches(rts[i].tpl, path) }
    IN IF hits = {} THEN 0 ELSE CHOOSE i \in hits : \A j \in hits : i <= j
MatchRoute(rts, method, path) ==
    LET hits == { i \in 1..Len(rts) :
                    PathMatches(rts[i].tpl, path) /\ MethodMatches(rts[i], method) }
    IN IF hits = {} THEN 0 ELSE CHOOSE i \in hits : \A j \in hits : i <= j

\* Some route matches the path but none of those matches the method.
MethodMismatch(rts, method, path) ==
    /\ MatchRoute(rts, method, path) = 0
    /\ \E i \in 1..Len(rts) : PathMatches(rts[i].tpl, path)

\* mux.Vars(r)["name"]: the segment bound to {name}, "" when the template has none.
VarName(tpl, path) ==
    LET at == { i \in 1..Len(tpl) : IsVar(tpl[i]) }
    IN IF at = {} THEN "" ELSE path[CHOOSE i \in at : TRUE]

\* route.GetPathTemplate(): the label the middleware counts under.
GetResolvedPath(r) == r.path
GetPathTemplate(r) == routes[r.route].tpl

\* The closures a matched request runs through: middlewares, then the route's handler.
ChainBareMetrics(r) ==
    IF routes[r.route].tpl = metricsPath THEN routes[r.route].handler
    ELSE middlewares \o routes[r.route].handler
Chain(r) == middlewares \o routes[r.route].handler

----------------------------------------------------------------------------
(* Business functions *)

SleepOf(fn) ==
    CASE fn = "generateBirthdayMessage" -> BirthdaySleep
      [] fn = "generateGreetingMessage" -> GreetingSleep
      [] OTHER -> 0

\* What the function writes when the write succeeds.
BodyOf(fn, name) ==
    CASE fn = "generateWelcomeMessage" -> <<"Welcome!">>
      [] fn = "generateBirthdayMessage" -> <<"Happy Birthday ", name, " :)">>
      [] fn = "generateGreetingMessage" -> <<"Greetings ", name, " :)">>
      [] fn = "promhttp.Handler" -> <<"# exposition">>
      [] OTHER -> <<"response for ", name>>

\* How a call of the function can end: the functions of main.go return, after
\* a good write or after answering 500 to a failed one; a function handed to a
\* wrapper by another caller may also panic.
OutcomesOf(fn) ==
    IF fn = "requestFunction" THEN {"ok", "werr", "panic"} ELSE {"ok", "werr"}

\* promhttp.Handler gathers the registry when it is called.
CachedSnapshot == [RequestCounter |-> <<>>,
                   counter |-> [id \in DOMAIN counter |-> 0],
                   gauge |-> [id \in DOMAIN gauge |-> 0],
                   histogram |-> [id \in DOMAIN histogram |-> EmptyBag]]
Snapshot == [RequestCounter |-> RequestCounter, counter |-> counter,
             gauge |-> gauge, histogram |-> histogram]

NoSnapshot == [RequestCounter |-> <<>>, counter |-> <<>>,
               gauge |-> <<>>, histogram |-> <<>>]

----------------------------------------------------------------------------
(* Requests *)

IdleReq == [st |-> "idle", method |-> "", path |-> <<>>, route |-> 0, depth |-> 0,
            out |-> "none", body |-> <<>>, scrape |-> NoSnapshot,
            starts |-> <<>>, wake |-> 0, calls |-> 0]

\* A closure that does something to shared state or the clock before it calls
\* the next one; the middleware and the counter wrapper only call through.
HasPre(frame) == frame.kind \in {"gauge", "histogram", "fn"}

\* From depth d, pass the closures that only call through.
RECURSIVE Descend(_, _)
Descend(chain, d) ==
    IF d < Len(chain) /\ ~HasPre(chain[d + 1]) THEN Descend(chain, d + 1) ELSE d

\* The closure whose entry step the request is at / whose exit step it is at.
Entering(r) == Chain(r)[r.depth + 1]
Leaving(r) == Chain(r)[r.depth]

\* The request's state after the closure at its depth has run its last statement.
Returned(r) ==
    IF r.depth = 1 THEN [r EXCEPT !.st = "done", !.depth = 0]
    ELSE [r EXCEPT !.st = "ret", !.depth = r.depth - 1]

\* Counter.Inc(), Gauge.Inc(), Gauge.Dec(), Histogram.Observe(v).
CounterIncTwice(f, id) == [f EXCEPT ![id] = @ + 2]
CounterInc(f, id) == [f EXCEPT ![id] = @ + 1]
GaugeInc(f, id) == [f EXCEPT ![id] = @ + 1]
GaugeDecForgotten(f, id) == f
GaugeDec(f, id) == [f EXCEPT ![id] = @ - 1]
Observe(f, id, v) == [f EXCEPT ![id] = @ (+) SetToBag({v})]

\* CounterVec.WithLabelValues(k).Inc(): the series is made on first use.
WithLabelValuesIncTwice(f, k) ==
    IF k \in DOMAIN f THEN [f EXCEPT ![k] = @ + 2] ELSE f @@ (k :> 2)
WithLabelValuesInc(f, k) ==
    IF k \in DOMAIN f THEN [f EXCEPT ![k] = @ + 1] ELSE f @@ (k :> 1)

IDOf(frame) == MetricID(frame.name, frame.path)

\* Router.ServeHTTP: match, then 404, 405 or the call of the matched chain.
\* Slots are taken in order (they are interchangeable).
ServeHTTP(i, method, path) ==
    /\ phase = "serving"
    /\ reqs[i].st = "idle"
    /\ \A j \in 1..(i - 1) : reqs[j].st # "idle"
    /\ LET m == MatchRoute(routes, method, path)
           q == [reqs[i] EXCEPT !.method = method, !.path = path, !.route = m]
       IN reqs' = [reqs EXCEPT ![i] =
              IF m = 0
              THEN [q EXCEPT !.st = "done",
                             !.out = IF MethodMismatch(routes, method, path)
                                     THEN "405" ELSE "404"]
              ELSE [q EXCEPT !.st = "call", !.depth = Descend(Chain(q), 0)]]
    /\ UNCHANGED <<phase, routes, middlewares, built, registry, rejected, RequestCounter,
                   counter, gauge, histogram, now>>

\* createRequestsInProgressMetric, line 96.
RequestInProgressInc(i) ==
    LET r == reqs[i] IN
    /\ r.st = "call"
    /\ Entering(r).kind = "gauge"
    /\ gauge' = GaugeInc(gauge, IDOf(Entering(r)))
    /\ reqs' = [reqs EXCEPT ![i].depth = Descend(Chain(r), r.depth + 1)]
    /\ UNCHANGED <<phase, routes, middlewares, built, registry, rejected, RequestCounter,
                   counter, histogram, now>>

\* createRequestLatencyMetric, line 112.
RequestLatencyStart(i) ==
    LET r == reqs[i] IN
    /\ r.st = "call"
    /\ Entering(r).kind = "histogram"
    /\ reqs' = [reqs EXCEPT ![i].depth = Descend(Chain(r), r.depth + 1),
                            ![i].starts = Append(@, now)]
    /\ UNCHANGED <<phase, routes, middlewares, built, registry, rejected, RequestCounter,
                   counter, gauge, histogram, now>>

\* The business function is called: it formats its message and goes to sleep.
requestFunctionCallLocked(i) ==
    LET r == reqs[i] IN
    /\ r.st = "call"
    /\ Entering(r).kind = "fn"
    /\ \A j \in DOMAIN reqs \ {i} : reqs[j].st # "sleep"
    /\ reqs' = [reqs EXCEPT ![i].st = "sleep",
                            ![i].depth = r.depth + 1,
                            ![i].calls = @ + 1,
                            ![i].wake = now + SleepOf(Entering(r).name)]
    /\ UNCHANGED <<phase, routes, middlewares, built, registry, rejected, RequestCounter,
                   counter, gauge, histogram, now>>
requestFunctionCall(i) ==
    LET r == reqs[i] IN
    /\ r.st = "call"
    /\ Entering(r).kind = "fn"
    /\ reqs' = [reqs EXCEPT ![i].st = "sleep",
                            ![i].depth = r.depth + 1,
                            ![i].calls = @ + 1,
                            ![i].wake = now + SleepOf(Entering(r).name)]
    /\ UNCHANGED <<phase, routes, middlewares, built, registry, rejected, RequestCounter,
                   counter, gauge, histogram, now>>

\* The request after its business function has written its response and returned.
RespondedTwice(r, outcome) ==
    LET fn == Leaving(r).name
        b == IF outcome = "ok" THEN BodyOf(fn, VarName(GetPathTemplate(r), r.path))
             ELSE <<"write error">>
        w == [r EXCEPT !.wake = 0, !.out = outcome, !.body = b \o b,
                       !.calls = @ + 1,
                       !.scrape = IF fn = "promhttp.Handler" /\ outcome = "ok"
                                  THEN Snapshot ELSE NoSnapshot]
    IN Returned(w)
Responded(r, outcome) ==
    LET fn == Leaving(r).name
        w == [r EXCEPT !.wake = 0,
                       !.out = outcome,
                       !.body = IF outcome = "ok"
                                THEN BodyOf(fn, VarName(GetPathTemplate(r), r.path))
                                ELSE <<"write error">>,
                       !.scrape = IF fn = "promhttp.Handler" /\ outcome = "ok"
                                  THEN Snapshot ELSE NoSnapshot]
    IN Returned(w)

\* The request after a panic left its business function: every closure on the
\* stack is unwound without running its remaining statements, and net/http
\* recovers the panic and drops the connection.
Panicked(r) ==
    [r EXCEPT !.st = "done", !.depth = 0, !.out = "panic", !.wake = 0,
              !.starts = <<>>]

\* The business function wakes up, writes and returns, or panics.
requestFunctionReturn(i, outcome) ==
    LET r == reqs[i] IN
    /\ r.st = "sleep"
    /\ now >= r.wake
    /\ outcome \in OutcomesOf(Leaving(r).name)
    /\ reqs' = [reqs EXCEPT ![i] = IF outcome = "panic" THEN Panicked(r)
                                   ELSE Responded(r, outcome)]
    /\ UNCHANGED <<phase, routes, middlewares, built, registry, rejected, RequestCounter,
                   counter, gauge, histogram, now>>

\* monitoringMiddleware, line 38.
monitoringMiddlewareInc(i) ==
    LET r == reqs[i] IN
    /\ r.st = "ret"
    /\ Leaving(r).kind = "mw"
    /\ RequestCounter' = WithLabelValuesInc(RequestCounter, GetPathTemplate(r))
    /\ reqs' = [reqs EXCEPT ![i] = Returned(r)]
    /\ UNCHANGED <<phase, routes, middlewares, built, registry, rejected,
                   counter, gauge, histogram, now>>

\* createRequestCounterMetric, line 82.
RequestCountInc(i) ==
    LET r == reqs[i] IN
    /\ r.st = "ret"
    /\ Leaving(r).kind = "counter"
    /\ counter' = CounterInc(counter, IDOf(Leaving(r)))
    /\ reqs' = [reqs EXCEPT ![i] = Returned(r)]
    /\ UNCHANGED <<phase, routes, middlewares, built, registry, rejected, RequestCounter,
                   gauge, histogram, now>>

\* createRequestsInProgressMetric, line 98.
RequestInProgressDec(i) ==
    LET r == reqs[i] IN
    /\ r.st = "ret"
    /\ Leaving(r).kind = "gauge"
    /\ gauge' = GaugeDec(gauge, IDOf(Leaving(r)))
    /\ reqs' = [reqs EXCEPT ![i] = Returned(r)]
    /\ UNCHANGED <<phase, routes, middlewares, built, registry, rejected, RequestCounter,
                   counter, histogram, now>>

\* time.Since(startTime), line 114.
startTimeItself(startTime) == startTime
timeSince(startTime) == now - startTime

\* createRequestLatencyMetric, lines 114-115.
RequestLatencyObserve(i) ==
    LET r == reqs[i]
        timeTaken == timeSince(r.starts[Len(r.starts)])
    IN
    /\ r.st = "ret"
    /\ Leaving(r).kind = "histogram"
    /\ histogram' = Observe(histogram, IDOf(Leaving(r)), timeTaken)
    /\ reqs' = [reqs EXCEPT ![i] =
                   Returned([r EXCEPT !.starts = SubSeq(@, 1, Len(@) - 1)])]
    /\ UNCHANGED <<phase, routes, middlewares, built, registry, rejected, RequestCounter,
                   counter, gauge, now>>

\* A request that is sleeping or has taken a start time: the only readers of
\* the clock.
Timing(r) == (r.st = "sleep" /\ r.wake > now) \/ r.starts # <<>>

\* Time passes; it is left standing while no request reads the clock.
Tick ==
    /\ phase = "serving"
    /\ \E i \in DOMAIN reqs : Timing(reqs[i])
    /\ now + TickStep <= MaxClock
    /\ now' = now + TickStep
    /\ UNCHANGED <<phase, routes, middlewares, built, registry, rejected, RequestCounter,
                   counter, gauge, histogram, reqs>>

Outcomes == {"ok", "werr", "panic"}

----------------------------------------------------------------------------
(* The program: main calls startApp, which wires the router and serves. *)

Init ==
    /\ phase = "serving"
    /\ routes = startAppRoutes
    /\ middlewares = <<Middleware>>
    /\ built = <<>>
    /\ registry = startAppRegistry
    /\ rejected = <<>>
    /\ RequestCounter = <<>>
    /\ counter = <<>>
    /\ gauge = (InProgressID :> 0)
    /\ histogram = (LatencyID :> EmptyBag)
    /\ now = 0
    /\ reqs = [i \in 1..NReq |-> IdleReq]

\* startApp wraps no route with createRequestCounterMetric.
Next ==
    \/ \E i \in DOMAIN reqs, method \in Methods, path \in Paths : ServeHTTP(i, method, path)
    \/ \E i \in DOMAIN reqs : RequestInProgressInc(i)
    \/ \E i \in DOMAIN reqs : RequestLatencyStart(i)
    \/ \E i \in DOMAIN reqs : requestFunctionCall(i)
    \/ \E i \in DOMAIN reqs, outcome \in Outcomes : requestFunctionReturn(i, outcome)
    \/ \E i \in DOMAIN reqs : monitoringMiddlewareInc(i)
    \/ \E i \in DOMAIN reqs : RequestInProgressDec(i)
    \/ \E i \in DOMAIN reqs : RequestLatencyObserve(i)
    \/ Tick

Spec == Init /\ [][Next]_vars

(* The steps of the goroutine net/http starts for the request in slot i. *)
Worker(i) ==
    \/ RequestInProgressInc(i)
    \/ RequestLatencyStart(i)
    \/ requestFunctionCall(i)
    \/ \E outcome \in Outcomes : requestFunctionReturn(i, outcome)
    \/ monitoringMiddlewareInc(i)
    \/ RequestInProgressDec(i)
    \/ RequestLatencyObserve(i)

(* The program under fair scheduling of the request goroutines: a goroutine
   that can take its next step eventually takes it.  Nothing obliges a client
   to send a request, and nothing here obliges the clock to advance, so a
   sleeping handler may stay asleep for as long as the others run. *)
SpecFair == Init /\ [][Next]_vars /\ \A i \in 1..NReq : WF_vars(Worker(i))

(* The same program under scrape traffic only: requests to / and to /metrics. *)
ScrapePaths == {welcomeEndpoint, metricsPath}

InitScrape ==
    /\ phase = "serving"
    /\ routes = startAppRoutes
    /\ middlewares = <<Middleware>>
    /\ built = <<>>
    /\ registry = startAppRegistry
    /\ rejected = <<>>
    /\ RequestCounter = <<>>
    /\ counter = <<>>
    /\ gauge = (InProgressID :> 0)
    /\ histogram = (LatencyID :> EmptyBag)
    /\ now = 0
    /\ reqs = [i \in 1..NScrape |-> IdleReq]

NextScrape ==
    \/ \E i \in DOMAIN reqs, path \in ScrapePaths : ServeHTTP(i, "GET", path)
    \/ \E i \in DOMAIN reqs : requestFunctionCall(i)
    \/ \E i \in DOMAIN reqs, outcome \in Outcomes : requestFunctionReturn(i, outcome)
    \/ \E i \in DOMAIN reqs : monitoringMiddlewareInc(i)

SpecScrape == InitScrape /\ [][NextScrape]_vars

----------------------------------------------------------------------------
(* The open wiring: any caller of the wrapper constructors, of the router  *)
(* and of monitoringMiddleware, composing handlers the way startApp does.  *)

LibFns == {"requestFunction"}
LibNames == {"requests"}
LibEndpoints == {welcomeEndpoint, greetingEndpoint}
LibTemplates == {greetingEndpoint}
LibPaths == { <<>>, <<"greeting", "alice">> }

\* The caller picks the business function it is going to wrap and register.
pickFunction(fn) ==
    /\ phase = "setup"
    /\ built = <<>>
    /\ built' = <<Fn(fn)>>
    /\ UNCHANGED <<phase, routes, middlewares, registry, rejected, RequestCounter,
                   counter, gauge, histogram, now, reqs>>

\* promauto.New*: MustRegister(c) panics when the identity of c is taken.
NeverRegistered(c) == FALSE
RegisteredWithOtherKind(c) ==
    IDOf(c) \in DOMAIN registry /\ registry[IDOf(c)] # c.kind
AlreadyRegistered(c) == IDOf(c) \in DOMAIN registry

\* A wrapper constructor: registers its metric (lines 73, 88, 104), panicking
\* out of main when that fails, and returns the closure around requestFunction.
createMetric(kind, name, endpoint) ==
    LET id == MetricID(name, endpoint) IN
    /\ phase = "setup"
    /\ built # <<>>
    /\ Len(built) <= MaxWrap
    /\ IF AlreadyRegistered(Wrapper(kind, name, endpoint))
       THEN /\ phase' = "fatal"
            /\ rejected' = <<Wrapper(kind, name, endpoint)>>
            /\ UNCHANGED <<built, registry>>
       ELSE /\ registry' = registry @@ (id :> kind)
            /\ built' = <<Wrapper(kind, name, endpoint)>> \o built
            /\ UNCHANGED <<phase, rejected>>
    /\ UNCHANGED <<routes, middlewares, RequestCounter, now, reqs>>

createRequestCounterMetric(name, endpoint) ==
    /\ createMetric("counter", name, endpoint)
    /\ counter' = IF AlreadyRegistered(Wrapper("counter", name, endpoint)) THEN counter
                  ELSE counter @@ (MetricID(name, endpoint) :> 0)
    /\ UNCHANGED <<gauge, histogram>>

createRequestsInProgressMetric(name, endpoint) ==
    /\ createMetric("gauge", name, endpoint)
    /\ gauge' = IF AlreadyRegistered(Wrapper("gauge", name, endpoint)) THEN gauge
                ELSE gauge @@ (MetricID(name, endpoint) :> 0)
    /\ UNCHANGED <<counter, histogram>>

createRequestLatencyMetric(name, endpoint) ==
    /\ createMetric("histogram", name, endpoint)
    /\ histogram' = IF AlreadyRegistered(Wrapper("histogram", name, endpoint)) THEN histogram
                    ELSE histogram @@ (MetricID(name, endpoint) :> EmptyBag)
    /\ UNCHANGED <<counter, gauge>>

\* router.HandleFunc(tpl, built).Methods("GET"): mux appends the route.
HandleFunc(tpl) ==
    /\ phase = "setup"
    /\ built # <<>>
    /\ Len(routes) < MaxRoutes
    /\ routes' = Append(routes, Route(tpl, {"GET"}, built))
    /\ built' = <<>>
    /\ UNCHANGED <<phase, middlewares, registry, rejected, RequestCounter,
                   counter, gauge, histogram, now, reqs>>

\* router.Use(monitoringMiddleware), line 140.
Use ==
    /\ phase = "setup"
    /\ middlewares = <<>>
    /\ middlewares' = <<Middleware>>
    /\ UNCHANGED <<phase, routes, built, registry, rejected, RequestCounter,
                   counter, gauge, histogram, now, reqs>>

\* http.ListenAndServe, line 143: from here on requests are accepted.
ListenAndServe ==
    /\ phase = "setup"
    /\ built = <<>>
    /\ phase' = "serving"
    /\ UNCHANGED <<routes, middlewares, built, registry, rejected, RequestCounter,
                   counter, gauge, histogram, now, reqs>>

Setup ==
    \/ \E fn \in LibFns : pickFunction(fn)
    \/ \E name \in LibNames, endpoint \in LibEndpoints :
           createRequestCounterMetric(name, endpoint)
    \/ \E name \in LibNames, endpoint \in LibEndpoints :
           createRequestsInProgressMetric(name, endpoint)
    \/ \E name \in LibNames, endpoint \in LibEndpoints :
           createRequestLatencyMetric(name, endpoint)
    \/ \E tpl \in LibTemplates : HandleFunc(tpl)
    \/ Use
    \/ ListenAndServe

InitLib ==
    /\ phase = "setup"
    /\ routes = <<>>
    /\ middlewares = <<>>
    /\ built = <<>>
    /\ registry = <<>>
    /\ rejected = <<>>
    /\ RequestCounter = <<>>
    /\ counter = <<>>
    /\ gauge = <<>>
    /\ histogram = <<>>
    /\ now = 0
    /\ reqs = [i \in 1..NLib |-> IdleReq]

NextLib ==
    \/ Setup
    \/ \E i \in DOMAIN reqs, path \in LibPaths : ServeHTTP(i, "GET", path)
    \/ \E i \in DOMAIN reqs : RequestInProgressInc(i)
    \/ \E i \in DOMAIN reqs : RequestLatencyStart(i)
    \/ \E i \in DOMAIN reqs : requestFunctionCall(i)
    \/ \E i \in DOMAIN reqs, outcome \in Outcomes : requestFunctionReturn(i, outcome)
    \/ \E i \in DOMAIN reqs : monitoringMiddlewareInc(i)
    \/ \E i \in DOMAIN reqs : RequestCountInc(i)
    \/ \E i \in DOMAIN reqs : RequestInProgressDec(i)
    \/ \E i \in DOMAIN reqs : RequestLatencyObserve(i)
    \/ Tick

SpecLib == InitLib /\ [][NextLib]_vars

----------------------------------------------------------------------------
(* Vocabulary of the properties *)

Matched(r) == r.st # "idle" /\ r.route # 0

\* The request is routed through the wrapper of that kind and identity.
Via(r, kind, id) ==
    /\ Matched(r)
    /\ \E k \in 1..Len(Chain(r)) : Chain(r)[k].kind = kind /\ IDOf(Chain(r)[k]) = id

ViaSet(kind, id) == { i \in DOMAIN reqs : Via(reqs[i], kind, id) }

Finished(r) == r.st = "done"

\* The business function returned (it did not panic).
ReturnedNormally(r) == r.out \in {"ok", "werr"}

----------------------------------------------------------------------------
(* C1: InProgress gauge pairing.  For the N requests routed through a gauge
   wrapper, the gauge never exceeds N, and once all of them have finished it
   is 0 again, also when the inner handler of one of them panicked. *)
C1_GaugePairing ==
    \A id \in DOMAIN gauge :
        /\ gauge[id] <= Cardinality(ViaSet("gauge", id))
        /\ (\A i \in ViaSet("gauge", id) : Finished(reqs[i])) => gauge[id] = 0

(* C2: Latency wrapper failure path.  Every request that went through a
   latency wrapper and has ended has its observation in the histogram, also
   when its inner handler panicked. *)
C2_ObservedOnEveryExit ==
    \A id \in DOMAIN histogram :
        Cardinality({ i \in ViaSet("histogram", id) : Finished(reqs[i]) })
            <= BagCardinality(histogram[id])

\* Value of the router-level counter's series for a label; 0 while the series
\* does not exist.
SeriesValue(label) == IF label \in DOMAIN RequestCounter THEN RequestCounter[label] ELSE 0

Templates == { routes[k].tpl : k \in 1..Len(routes) }

\* Requests matched to the template whose handler returned and that have ended.
Completed(tpl) ==
    { i \in DOMAIN reqs : /\ Matched(reqs[i])
                          /\ routes[reqs[i].route].tpl = tpl
                          /\ Finished(reqs[i])
                          /\ ReturnedNormally(reqs[i]) }

(* C3: Count wrapper.  Once the requests routed through a counter wrapper
   have all ended, its counter equals the number K of them whose inner handler
   returned: nothing is counted twice and no increment is lost. *)
C3_CounterEqualsCompleted ==
    \A id \in DOMAIN counter :
        (\A i \in ViaSet("counter", id) : Finished(reqs[i]))
            => counter[id] = Cardinality({ i \in ViaSet("counter", id) :
                                             ReturnedNormally(reqs[i]) })

C3_Witness ==
    \E id \in DOMAIN counter :
        /\ counter[id] = 2
        /\ \A i \in ViaSet("counter", id) : Finished(reqs[i])

(* C4: Path-template labelling.  Every series of RequestCounter is labelled
   with a route's path template, never with a resolved path, and the series
   "/greeting/{name}" counts the completed requests to /greeting/alice and to
   /greeting/bob together: 2 after one of each. *)
C4_TemplateLabel ==
    /\ DOMAIN RequestCounter \subseteq Templates
    /\ SeriesValue(greetingEndpoint) =
           Cardinality({ i \in Completed(greetingEndpoint) :
                           reqs[i].path \in { <<"greeting", "alice">>,
                                              <<"greeting", "bob">> } })

C4_Witness ==
    /\ \E i, j \in DOMAIN reqs :
           /\ reqs[i].path = <<"greeting", "alice">> /\ i \in Completed(greetingEndpoint)
           /\ reqs[j].path = <<"greeting", "bob">> /\ j \in Completed(greetingEndpoint)
           /\ \A k \in DOMAIN reqs \ {i, j} : reqs[k].st = "idle"
    /\ RequestCounter = (greetingEndpoint :> 2)

(* C5: Path-template middleware on failure.  As claimed: with the middleware
   in use, every matched request that has ended was counted once under its
   template, whether its handler succeeded, failed or panicked. *)
C5_CountedOnEveryExit ==
    middlewares # <<>> =>
        \A tpl \in Templates :
            SeriesValue(tpl) =
                Cardinality({ i \in DOMAIN reqs : /\ Matched(reqs[i])
                                                  /\ routes[reqs[i].route].tpl = tpl
                                                  /\ Finished(reqs[i]) })

(* C5, amended: with the middleware in use, the series of a template counts
   exactly the matched requests whose handler returned, after a good write or
   after answering 500 to a failed one; a request whose handler panicked is
   not counted. *)
C5_CountedOnReturn ==
    middlewares # <<>> =>
        \A tpl \in Templates : SeriesValue(tpl) = Cardinality(Completed(tpl))

C5_Witness ==
    /\ middlewares # <<>>
    /\ \E i, j \in DOMAIN reqs :
           /\ Matched(reqs[i]) /\ Finished(reqs[i]) /\ reqs[i].out = "werr"
           /\ Matched(reqs[j]) /\ Finished(reqs[j]) /\ reqs[j].out = "panic"
           /\ SeriesValue(routes[reqs[i].route].tpl) = 1

\* No registered route matches the method and the path.
Unmatched(method, path) ==
    \A k \in 1..Len(routes) :
        ~(PathMatches(routes[k].tpl, path) /\ MethodMatches(routes[k], method))

Metrics == <<RequestCounter, counter, gauge, histogram>>

(* C6: No route matched.  As claimed: a request whose method and path match
   no registered route ends with the not-found outcome, no handler having
   been called. *)
C6_UnmatchedIsNotFound ==
    \A i \in DOMAIN reqs :
        (reqs[i].st # "idle" /\ Unmatched(reqs[i].method, reqs[i].path))
            => /\ reqs[i].st = "done"
               /\ reqs[i].out = "404"
               /\ reqs[i].calls = 0

(* C6, amended: the step that dispatches a request matching no registered
   route ends it at once, with the not-found outcome, or with the
   method-not-allowed outcome when its path matches a route's template under
   another method; no handler is called and every counter, gauge and
   histogram is left as it was. *)
C6_UnmatchedLeavesNoTrace ==
    [][ \A i \in DOMAIN reqs :
            ( /\ reqs[i].st = "idle"
              /\ reqs'[i].st # "idle"
              /\ Unmatched(reqs'[i].method, reqs'[i].path) )
            => /\ reqs'[i].st = "done"
               /\ reqs'[i].calls = 0
               /\ reqs'[i].out =
                      IF \E k \in 1..Len(routes) : PathMatches(routes[k].tpl, reqs'[i].path)
                      THEN "405" ELSE "404"
               /\ Metrics' = Metrics ]_vars

C6_Witness ==
    \E i, j \in DOMAIN reqs :
        /\ reqs[i].st = "done" /\ reqs[i].out = "404"
        /\ reqs[j].st = "done" /\ reqs[j].out = "405"

\* The wrappers of all registered handlers, by route and position.
WrapperAt == { <<k, n>> \in (1..Len(routes)) \X (1..(MaxWrap + 2)) :
                 n <= Len(routes[k].handler) /\ routes[k].handler[n].kind # "fn" }

Serving == \E i \in DOMAIN reqs : reqs[i].st # "idle"

NoDuplicateRoute ==
    \A a, b \in 1..Len(routes) :
        (routes[a].tpl = routes[b].tpl /\ routes[a].methods = routes[b].methods) => a = b

NoSharedIdentity ==
    \A p, q \in WrapperAt :
        IDOf(routes[p[1]].handler[p[2]]) = IDOf(routes[q[1]].handler[q[2]]) => p = q

(* C7: Duplicate registration is rejected at startup.  As claimed: no request
   is ever served while two routes registered for the same template and method
   coexist, or two handlers registered under one metric identity. *)
C7_DuplicatesRejected == Serving => (NoDuplicateRoute /\ NoSharedIdentity)

(* C7, amended: a metric identity that is already registered, with the same
   or another kind, is rejected at startup: the constructor panics, the
   process is dead and never serves a request, so no request is served while
   two handlers share an identity.  A route registered twice for the same
   template and method is not rejected: both are kept, and a request is served
   by the first registered route that matches it. *)
C7_MetricDuplicatesRejected ==
    /\ Serving => NoSharedIdentity
    /\ rejected # <<>> => (phase = "fatal" /\ ~Serving)
    /\ \A i \in DOMAIN reqs :
           Matched(reqs[i]) =>
               /\ PathMatches(routes[reqs[i].route].tpl, reqs[i].path)
               /\ MethodMatches(routes[reqs[i].route], reqs[i].method)
               /\ \A k \in 1..(reqs[i].route - 1) :
                      ~(PathMatches(routes[k].tpl, reqs[i].path)
                        /\ MethodMatches(routes[k], reqs[i].method))

C7_Witness ==
    /\ rejected # <<>>
    /\ registry[IDOf(rejected[1])] # rejected[1].kind

(* C8: Idempotent same-kind registration.  As claimed: registering again an
   identity that is registered with the same kind does not fail. *)
C8_SameKindIdempotent ==
    rejected # <<>> => registry[IDOf(rejected[1])] # rejected[1].kind

(* C8, amended: a wrapper constructor called with a name and endpoint whose
   identity is already registered panics, whatever the kind: it returns no
   second handler, and the registry and the metric registered first are left
   as they were. *)
C8_ReRegistrationPanics ==
    [][ \A name \in LibNames, endpoint \in LibEndpoints :
            ( /\ MetricID(name, endpoint) \in DOMAIN registry
              /\ \/ createRequestCounterMetric(name, endpoint)
                 \/ createRequestsInProgressMetric(name, endpoint)
                 \/ createRequestLatencyMetric(name, endpoint) )
            => /\ phase' = "fatal"
               /\ built' = built
               /\ registry' = registry
               /\ Metrics' = Metrics ]_vars

C8_Witness ==
    /\ rejected # <<>>
    /\ rejected[1].kind = "counter"
    /\ registry[IDOf(rejected[1])] = "counter"

\* The value a scrape body reports for a series of RequestCounter.
Reported(body, label) ==
    IF label \in DOMAIN body.RequestCounter THEN body.RequestCounter[label] ELSE 0

(* C9: Exposition freshness.  The body the /metrics handler returns reports,
   for every route template, the number of requests to it completed at the
   moment of the scrape, not an earlier state; after 3 completed requests to
   / it reports 3 for the series "/". *)
C9_ScrapeIsFresh ==
    [][ \A i \in DOMAIN reqs :
            ( /\ reqs[i].st = "sleep"
              /\ reqs'[i].st # "sleep"
              /\ Leaving(reqs[i]).name = "promhttp.Handler"
              /\ reqs'[i].out = "ok" )
            => \A tpl \in Templates :
                   Reported(reqs'[i].scrape, tpl) = Cardinality(Completed(tpl)) ]_vars

C9_Witness ==
    \E i \in DOMAIN reqs :
        /\ reqs[i].path = metricsPath
        /\ reqs[i].out = "ok"
        /\ Reported(reqs[i].scrape, welcomeEndpoint) = 3
        /\ Cardinality(Completed(welcomeEndpoint)) = 3

\* The business function of a matched request's route.
BusinessOf(r) == routes[r.route].handler[Len(routes[r.route].handler)].name

(* C10: Instrumentation transparency.  Whatever wrappers and middleware
   surround it, the business function of the matched route is called once per
   request, and the response the request ends with is the one it wrote. *)
C10_Transparent ==
    \A i \in DOMAIN reqs :
        /\ Matched(reqs[i]) => reqs[i].calls <= 1
        /\ (Matched(reqs[i]) /\ Finished(reqs[i])) =>
               /\ reqs[i].calls = 1
               /\ reqs[i].out = "ok" =>
                      reqs[i].body = BodyOf(BusinessOf(reqs[i]),
                                            VarName(routes[reqs[i].route].tpl, reqs[i].path))
               /\ reqs[i].out = "werr" => reqs[i].body = <<"write error">>

C10_Witness ==
    \E i \in DOMAIN reqs :
        /\ Matched(reqs[i]) /\ Finished(reqs[i]) /\ reqs[i].out = "ok"
        /\ middlewares # <<>>
        /\ Len(routes[reqs[i].route].handler) = 3
        /\ reqs[i].body = <<"response for ", "alice">>

\* Position of the closure of that kind and identity in the request's chain.
PosOf(r, kind, id) ==
    CHOOSE k \in 1..Len(Chain(r)) : Chain(r)[k].kind = kind /\ IDOf(Chain(r)[k]) = id

\* The call the closure at position pos made to its inner handler has returned.
InnerReturned(r, pos) ==
    /\ ReturnedNormally(r)
    /\ Finished(r) \/ (r.st = "ret" /\ r.depth <= pos)

\* The closure at position pos has run its statement after the inner call.
PostDone(r, pos) ==
    /\ ReturnedNormally(r)
    /\ Finished(r) \/ (r.st = "ret" /\ r.depth < pos)

(* C11: Latency histogram sample.  Every request to the latency-wrapped
   endpoint /greeting/{name}, whose inner handler takes GreetingSleep seconds,
   adds exactly one sample to the histogram once its handler has returned, and
   every recorded sample is at least GreetingSleep. *)
C11_OneSampleAtLeastD ==
    /\ BagCardinality(histogram[LatencyID]) =
           Cardinality({ i \in ViaSet("histogram", LatencyID) :
                           PostDone(reqs[i], PosOf(reqs[i], "histogram", LatencyID)) })
    /\ \A v \in BagToSet(histogram[LatencyID]) : v >= GreetingSleep

C11_Witness ==
    /\ BagCardinality(histogram[LatencyID]) = 1
    /\ \E i \in ViaSet("histogram", LatencyID) : Finished(reqs[i]) /\ reqs[i].out = "ok"
    /\ \A i \in DOMAIN reqs \ ViaSet("histogram", LatencyID) : reqs[i].st = "idle"

(* C12: Count ordering (at-most-once).  In createRequestCounterMetric and in
   monitoringMiddleware alike the increment follows the inner call, so in
   every reachable state each wrapper counter and each template-labelled
   series is at most the number of requests whose inner handler has already
   returned; a request still inside its handler is never counted. *)
C12_CountedAfterReturn ==
    /\ \A id \in DOMAIN counter :
           counter[id] <= Cardinality({ i \in ViaSet("counter", id) :
                              InnerReturned(reqs[i], PosOf(reqs[i], "counter", id)) })
    /\ \A tpl \in Templates :
           SeriesValue(tpl) <= Cardinality({ i \in DOMAIN reqs :
                                  /\ Matched(reqs[i])
                                  /\ GetPathTemplate(reqs[i]) = tpl
                                  /\ middlewares # <<>>
                                  /\ InnerReturned(reqs[i], 1) })

C12_Witness ==
    \E id \in DOMAIN counter, i, j \in DOMAIN reqs :
        /\ middlewares # <<>>
        /\ i \in ViaSet("counter", id) /\ reqs[i].st = "sleep"
        /\ j \in ViaSet("counter", id) /\ Finished(reqs[j]) /\ ReturnedNormally(reqs[j])
        /\ counter[id] = 1
        /\ SeriesValue(GetPathTemplate(reqs[j])) = 1

\* The template of the request's route; none for a request no route matched.
TemplateOf(r) == IF r.route \in 1..Len(routes) THEN routes[r.route].tpl ELSE <<"">>

\* The request is inside the business function of /birthday/{name}.
InsideBirthday(r) == TemplateOf(r) = birthdayEndpoint /\ r.st = "sleep"

\* The request was dispatched to / or to /metrics and has not ended.
InFlightOnFastRoute(r) ==
    /\ r.st \notin {"idle", "done"}
    /\ TemplateOf(r) \in {welcomeEndpoint, metricsPath}

(* C13: Independent dispatch.  Under fair scheduling of the request
   goroutines, a request dispatched to / or to /metrics while a
   /birthday/{name} request is inside its handler goes on to complete with
   its route's series counted, whether or not the slow handler ever wakes. *)
C13_IndependentDispatch ==
    \A j \in 1..NReq :
        ((\E i \in 1..NReq : InsideBirthday(reqs[i])) /\ InFlightOnFastRoute(reqs[j]))
            ~> (reqs[j].st = "done" /\ SeriesValue(TemplateOf(reqs[j])) >= 1)

\* A scrape started and ended while the birthday request slept: it saw the gauge at 1.
C13_Witness ==
    \E i, j \in DOMAIN reqs :
        /\ InsideBirthday(reqs[i])
        /\ now < reqs[i].wake
        /\ Matched(reqs[j]) /\ GetPathTemplate(reqs[j]) = metricsPath
        /\ Finished(reqs[j]) /\ reqs[j].out = "ok"
        /\ reqs[j].scrape.gauge[InProgressID] = 1
        /\ SeriesValue(metricsPath) = 1

(* C14: Per-route wiring frame.  A step of a request changes no
   template-labelled series other than that of the request's own matched
   route; a request to / changes no wrapper metric at all, a request to
   /birthday/{name} never changes the request_latency histogram, and a
   request to /greeting/{name} never changes the requests_in_progress gauge. *)
C14_PerRouteFrame ==
    [][\A i \in DOMAIN reqs :
          reqs'[i] # reqs[i] =>
              LET tpl == TemplateOf(reqs'[i]) IN
              /\ \A label \in (DOMAIN RequestCounter) \cup (DOMAIN RequestCounter') :
                     label # tpl =>
                         /\ label \in DOMAIN RequestCounter
                         /\ label \in DOMAIN RequestCounter'
                         /\ RequestCounter'[label] = RequestCounter[label]
              /\ tpl = welcomeEndpoint =>
                     /\ counter' = counter
                     /\ gauge' = gauge
                     /\ histogram' = histogram
              /\ tpl = birthdayEndpoint => histogram' = histogram
              /\ tpl = greetingEndpoint => gauge' = gauge]_vars

\* A request to / has ended and a birthday request is in its handler: only
\* the series "/" and the gauge have moved.
C14_Witness ==
    \E i, j \in DOMAIN reqs :
        /\ TemplateOf(reqs[i]) = welcomeEndpoint /\ Finished(reqs[i])
        /\ InsideBirthday(reqs[j])
        /\ RequestCounter = (welcomeEndpoint :> 1)
        /\ gauge[InProgressID] = 1
        /\ histogram[LatencyID] = EmptyBag

\* The scrapes received so far, and those among them still being served.
Scrapes == { i \in DOMAIN reqs : TemplateOf(reqs[i]) = metricsPath /\ reqs[i].st # "idle" }
ScrapesInFlight == { i \in Scrapes : reqs[i].st # "done" }

(* C15: Scraping is itself counted, after the snapshot.  The middleware runs
   on the /metrics route too: the step that ends a scrape raises the series
   "/metrics" by 1, above the value that scrape's own body reported; so when
   no other scrape is in flight, the body of the n-th scrape reports n-1 for
   that series. *)
C15_ScrapeCountedAfterSnapshot ==
    [][ \A i \in DOMAIN reqs :
            /\ ( /\ reqs[i].st = "sleep"
                 /\ reqs'[i].st # "sleep"
                 /\ TemplateOf(reqs[i]) = metricsPath
                 /\ reqs'[i].out = "ok"
                 /\ ScrapesInFlight = {i} )
               => Reported(reqs'[i].scrape, metricsPath) = Cardinality(Scrapes) - 1
            /\ ( /\ TemplateOf(reqs[i]) = metricsPath
                 /\ reqs[i].st = "ret"
                 /\ reqs'[i].st = "done" )
               => /\ metricsPath \in DOMAIN RequestCounter'
                  /\ RequestCounter'[metricsPath] = SeriesValue(metricsPath) + 1
                  /\ reqs[i].out = "ok" =>
                         Reported(reqs[i].scrape, metricsPath) < RequestCounter'[metricsPath]
      ]_vars

\* The third of three scrapes served one after the other has ended: it reported 2.
C15_Witness ==
    \E i \in DOMAIN reqs :
        /\ Cardinality(Scrapes) = 3
        /\ ScrapesInFlight = {}
        /\ \A j \in Scrapes : reqs[j].out = "ok"
        /\ { Reported(reqs[j].scrape, metricsPath) : j \in Scrapes } = {0, 1, 2}
        /\ i \in Scrapes
        /\ Reported(reqs[i].scrape, metricsPath) = 2
        /\ SeriesValue(metricsPath) = 3

\* The request has run the Inc of the gauge closure at position pos and not yet its Dec.
BetweenIncAndDec(r, pos) ==
    /\ r.st \in {"call", "sleep", "ret"}
    /\ r.depth >= pos

(* C16: Gauge equals in-flight count.  As long as no inner handler has
   panicked, in every reachable state each in-progress gauge equals the
   number of requests that have run the wrapper's increment and not yet its
   decrement; so the gauge is never negative. *)
C16_GaugeIsInFlight ==
    (\A i \in DOMAIN reqs : reqs[i].out # "panic") =>
        \A id \in DOMAIN gauge :
            /\ gauge[id] = Cardinality({ i \in ViaSet("gauge", id) :
                               BetweenIncAndDec(reqs[i], PosOf(reqs[i], "gauge", id)) })
            /\ gauge[id] >= 0

\* Two requests are inside the handler of one gauge-wrapped route.
C16_Witness ==
    \E id \in DOMAIN gauge :
        /\ gauge[id] = 2
        /\ Cardinality({ i \in ViaSet("gauge", id) : reqs[i].st = "sleep" }) = 2
        /\ \A i \in DOMAIN reqs : reqs[i].out # "panic"

====
